---- MODULE Spec2Model ----
(***************************************************************************)
(* Swathi Nakshatra tracker: the lunar longitude model, the band predicate *)
(* and the period locator findCurrentOrNextSwathiPeriod, as a state        *)
(* machine with one step per loop iteration of the locator.                *)
(*                                                                         *)
(* Instants.  A Date is a count of milliseconds.  TLC's integers are 32    *)
(* bits wide and 30 days of milliseconds do not fit, so a Date is the pair *)
(* [min, ms] standing for min * 60000 + ms milliseconds after              *)
(* 2000-01-01T12:00:00Z (J2000), with 0 <= ms < 60000.                     *)
(*                                                                         *)
(* Angles.  An angle is an integer count of 1e-5 degree, so that           *)
(* AYANAMSHA_AT_J2000 = 23.85575 is the integer 2385575.  The band bounds  *)
(* 14 * 360 / 27 and 15 * 360 / 27 are not integers in any decimal unit:   *)
(* isSwathi compares 27 * longitude with 14 * 360 and 15 * 360 instead.    *)
(***************************************************************************)
EXTENDS Integers, Sequences, FiniteSets, TLC

VARIABLES
    impl,         \* which locator of the repository runs: "part_000" or "part_001"
    sunCalc,      \* window.SunCalc is defined (consulted by part_001 only)
    provider,     \* the longitude model the locator queries (fixed per run)
    pc,           \* position of the locator call
    startDate,    \* the Date argument of the current call
    currentDate,  \* locals of findCurrentOrNextSwathiPeriod
    startFinder,
    endFinder,
    searchDate,
    periodStart,
    result,       \* what the last completed call returned or threw
    history,      \* the completed calls, oldest first
    instant,      \* a longitude query on its own: the day queried, counted from J2000
    answer,       \* and the longitude the query returned
    verdict,      \* what isSwathi, called on its own, said of the longitude in answer
    now,          \* the App: new Date() of the latest mount or timer tick
    activePeriod, \* the App's state: activePeriod (NoPeriod is null)
    isSwathiActive,
    target,       \* the Date the last setCountdown(calculateCountdown(...)) was given
    isLoading,
    error,        \* "" is null
    permission,   \* Notification.permission
    mounted,      \* NotificationManager is rendered
    lastNotified, \* NotificationManager's state (NoDate is null)
    notified      \* the keys of the notifications created, oldest first

vars == << impl, sunCalc, provider, pc, startDate, currentDate, startFinder, endFinder,
           searchDate, periodStart, result, history, instant, answer,
           verdict, now, activePeriod, isSwathiActive, target, isLoading, error,
           permission, mounted, lastNotified, notified >>

\* what a run fixes at its start
env == << impl, sunCalc, provider >>

locals == << currentDate, startFinder, endFinder, searchDate, periodStart >>

\* what no step of the locator touches
query == << instant, answer, verdict >>

\* the state of App and of NotificationManager
app == << now, activePeriod, isSwathiActive, target, isLoading, error,
          permission, mounted, lastNotified, notified >>

outer == << query, app >>

-----------------------------------------------------------------------------
(* Bounds of the model *)

\* number of calls of the locator in one run
MaxCalls == 3

\* the reference instants tried are RefBase + k * RefStride minutes, k = 0..NumRefs
NumRefs == 3

-----------------------------------------------------------------------------
(* Dates *)

MsPerMinute == 60 * 1000

NoDate == [min |-> -1, ms |-> 0]

\* AddMs with the seconds and milliseconds of the result set to zero, as
\* setSeconds(0, 0) would
AddMs_WholeMinute(d, k) ==
    LET total == d.ms + k
    IN  [min |-> d.min + (total \div MsPerMinute), ms |-> 0]

\* new Date(d.getTime() + k)
AddMs(d, k) ==
    LET total == d.ms + k
    IN  [min |-> d.min + (total \div MsPerMinute), ms |-> total % MsPerMinute]

\* a.getTime() < b.getTime()
DateLT(a, b) == a.min < b.min \/ (a.min = b.min /\ a.ms < b.ms)

\* a.getTime() <= b.getTime()
DateLE(a, b) == a = b \/ DateLT(a, b)

\* a.getTime() - b.getTime() > limitMin * 60000
DiffExceeds(a, b, limitMin) ==
    \/ a.min - b.min > limitMin
    \/ a.min - b.min = limitMin /\ a.ms - b.ms > 0

-----------------------------------------------------------------------------
(* Angles and the band *)

\* 360 degrees, in units of 1e-5 degree
FullCircle == 360 * 100000

\* isSwathi with the upper bound included
isSwathi_ClosedAbove(longitude) ==
    /\ 27 * longitude >= (15 - 1) * FullCircle
    /\ 27 * longitude <= 15 * FullCircle

\* isSwathi: SWATHI_START_DEGREES <= longitude < SWATHI_END_DEGREES, where
\* SWATHI_START_DEGREES = (15 - 1) * (360 / 27), SWATHI_END_DEGREES = 15 * (360 / 27)
isSwathi(longitude) ==
    /\ 27 * longitude >= (15 - 1) * FullCircle
    /\ 27 * longitude < 15 * FullCircle

-----------------------------------------------------------------------------
(* The longitude model *)

AYANAMSHA_AT_J2000 == 2385575

\* AyanamshaOnDay with the elapsed time counted from 1970-01-01 instead of J2000
AyanamshaOnDay_FromUnixEpoch(day) ==
    AYANAMSHA_AT_J2000 + ((day + 10958) \div 13149) * 50290
        + (((day + 10958) % 13149) * 50290) \div 13149

\* AYANAMSHA_AT_J2000 + yearsSinceJ2000 * (50.29 / 3600), `day` whole days after
\* J2000.  In 1e-5 degree per day the rate is
\* 50.29 / 3600 / 365.25 * 1e5 = 50290 / 13149; floor(day * 50290 / 13149) is
\* computed in two stages to stay inside 32 bits for every day a Date can hold.
AyanamshaOnDay(day) ==
    AYANAMSHA_AT_J2000 + (day \div 13149) * 50290 + ((day % 13149) * 50290) \div 13149

\* getLahiriAyanamsha; the elapsed time is taken in whole days
getLahiriAyanamsha(date) == AyanamshaOnDay(date.min \div (24 * 60))

\* JavaScript's % : the remainder has the sign of the dividend
JsRem(a, n) == IF a >= 0 THEN a % n ELSE -((-a) % n)

\* The mean longitude L' at `date`: p.L0 at J2000 plus one revolution every p.period
\* minutes (the linear term of Lp).  p.period = 0 is a longitude source that
\* stands still.  With r minutes into the current revolution,
\* floor(FullCircle * r / p.period) is computed in two stages to stay inside
\* 32 bits.
\* MeanLongitudeAt advancing at a quarter of the speed
MeanLongitudeAt_QuarterSpeed(p, r) ==
    LET a == 9000 * r
    IN  p.L0 + (a \div p.period) * 1000 + ((a % p.period) * 1000) \div p.period

MeanLongitudeAt(p, r) ==
    LET a == 36000 * r
    IN  p.L0 + (a \div p.period) * 1000 + ((a % p.period) * 1000) \div p.period

MeanLongitude(p, date) ==
    IF p.period = 0 THEN p.L0 ELSE MeanLongitudeAt(p, date.min % p.period)

\* sigmaL / 1000000: the periodic correction.  Its leading term
\* 6288774 * sin(M') is kept, the sine taken as the triangle wave of the same
\* amplitude p.amp and period p.wper minutes (p.wper = 0: no correction).
SigmaLAt(p, r) ==
    LET x == (r * 1000) \div p.wper
        q == p.amp \div 250
    IN  IF x < 250 THEN q * x
        ELSE IF x < 750 THEN q * (500 - x)
        ELSE q * (x - 1000)

SigmaL(p, date) ==
    IF p.wper = 0 THEN 0 ELSE SigmaLAt(p, date.min % p.wper)

\* The Moon's ecliptic longitude: tropicalLongitude = Lp + sigmaL / 1000000,
\* then tropicalLongitude % 360 and + 360 if negative
NormalizeTropical(raw) ==
    LET rem == JsRem(raw, FullCircle)
    IN  IF rem < 0 THEN rem + FullCircle ELSE rem

TropicalLongitude(p, date) ==
    NormalizeTropical(MeanLongitude(p, date) + SigmaL(p, date))

\* getMoonSiderealLongitude (part_000): tropical longitude minus ayanamsha,
\* then if (< 0) += 360; if (>= 360) -= 360
NormalizeSidereal(sid0) ==
    LET sid1 == IF sid0 < 0 THEN sid0 + FullCircle ELSE sid0
    IN  IF sid1 >= FullCircle THEN sid1 - FullCircle ELSE sid1

getMoonSiderealLongitude(date) ==
    NormalizeSidereal(TropicalLongitude(provider, date) - getLahiriAyanamsha(date))

\* getLunarSiderealLongitude (part_001), once SunCalc is known to be loaded:
\* the ecliptic longitude SunCalc reports, in degrees, minus ayanamsha,
\* + 360 if negative
getLunarSiderealLongitude(date) ==
    LET sid0 == TropicalLongitude(provider, date) - getLahiriAyanamsha(date)
    IN  IF sid0 < 0 THEN sid0 + FullCircle ELSE sid0

\* getMoonSiderealLongitude (App.tsx), the single mean-motion term:
\* tropicalLongitude = (218.316 + 360 * (cycles % 1)) % 360, where cycles % 1
\* and the outer % keep the sign of their dividend and nothing is added to a
\* negative remainder; r is the signed count of minutes into the revolution
LF_TropicalAt(p, r) ==
    JsRem(IF p.period = 0 THEN p.L0 ELSE MeanLongitudeAt(p, r), FullCircle)

\* then minus ayanamsha, if (< 0) += 360; if (>= 360) -= 360
LF_getMoonSiderealLongitude(date) ==
    NormalizeSidereal(
        LF_TropicalAt(provider, IF provider.period = 0 THEN 0
                                ELSE JsRem(date.min, provider.period))
        - getLahiriAyanamsha(date))

\* isSwathi(getMoonSiderealLongitude(date))
InBand(date) == isSwathi(getMoonSiderealLongitude(date))

\* isSwathi(getLunarSiderealLongitude(date))
NC_InBand(date) == isSwathi(getLunarSiderealLongitude(date))

-----------------------------------------------------------------------------
(* findCurrentOrNextSwathiPeriod *)

\* const coarseStep = 30 * 60 * 1000
coarseStep == 30 * 60 * 1000

\* const fineStep = 60 * 1000
fineStep == 60 * 1000

\* the search horizon 30 * 24 * 60 * 60 * 1000 ms, in minutes
MaxSearchMinutes == 30 * 24 * 60

SearchExhausted == "Could not find Swathi period within 30 days"

NoResult == [ok |-> FALSE, start |-> NoDate, end |-> NoDate, error |-> ""]

Returned(s, e) == [ok |-> TRUE, start |-> s, end |-> e, error |-> ""]

Thrown(msg) == [ok |-> FALSE, start |-> NoDate, end |-> NoDate, error |-> msg]

Running == pc \notin {"idle", "returned", "thrown"}

\* The call and the mode test: currentDate = new Date(startDate), then
\* if (isSwathi(longitude)) startFinder = new Date(currentDate)  [Mode A]
\* else searchDate = new Date(currentDate)                       [Mode B]
Enter(ref) ==
    /\ startDate' = ref
    /\ currentDate' = ref
    /\ result' = NoResult
    /\ endFinder' = NoDate
    /\ periodStart' = NoDate
    /\ IF isSwathi(getMoonSiderealLongitude(ref))
          THEN /\ pc' = "A_backCoarse"
               /\ startFinder' = ref
               /\ searchDate' = NoDate
          ELSE /\ pc' = "B_fwdCoarse"
               /\ searchDate' = ref
               /\ startFinder' = NoDate
    /\ UNCHANGED << env, history >>

\* A_BackCoarse with the step added instead of subtracted
A_BackCoarse_Forward ==
    /\ pc = "A_backCoarse"
    /\ IF InBand(startFinder)
          THEN /\ startFinder' = AddMs(startFinder, coarseStep)
               /\ pc' = pc
          ELSE /\ pc' = "A_fwdFine"
               /\ UNCHANGED startFinder
    /\ UNCHANGED << env, outer, startDate, currentDate, endFinder, searchDate,
                    periodStart, result, history >>

\* A_BackCoarse stepping the caller's Date itself: startFinder taken without
\* new Date(...) and moved with setTime
A_BackCoarse_Aliased ==
    /\ pc = "A_backCoarse"
    /\ IF InBand(startFinder)
          THEN /\ startFinder' = AddMs(startFinder, -coarseStep)
               /\ startDate' = AddMs(startFinder, -coarseStep)
               /\ pc' = pc
          ELSE /\ pc' = "A_fwdFine"
               /\ UNCHANGED << startFinder, startDate >>
    /\ UNCHANGED << env, outer, currentDate, endFinder, searchDate,
                    periodStart, result, history >>

\* Mode A: while (isSwathi(...(startFinder))) startFinder -= coarseStep
A_BackCoarse ==
    /\ pc = "A_backCoarse"
    /\ IF InBand(startFinder)
          THEN /\ startFinder' = AddMs(startFinder, -coarseStep)
               /\ pc' = pc
          ELSE /\ pc' = "A_fwdFine"
               /\ UNCHANGED startFinder
    /\ UNCHANGED << env, outer, startDate, currentDate, endFinder, searchDate,
                    periodStart, result, history >>

\* A_FwdFine whose loop body leaves startFinder where it is
A_FwdFine_NoAdvance ==
    /\ pc = "A_fwdFine"
    /\ IF ~InBand(startFinder)
          THEN /\ startFinder' = startFinder
               /\ pc' = pc
               /\ UNCHANGED << periodStart, endFinder >>
          ELSE /\ periodStart' = startFinder
               /\ endFinder' = currentDate
               /\ pc' = "A_endCoarse"
               /\ UNCHANGED startFinder
    /\ UNCHANGED << env, outer, startDate, currentDate, searchDate, result, history >>

\* Mode A: while (!isSwathi(...(startFinder))) startFinder += fineStep;
\* then periodStart = new Date(startFinder), endFinder = new Date(currentDate)
A_FwdFine ==
    /\ pc = "A_fwdFine"
    /\ IF ~InBand(startFinder)
          THEN /\ startFinder' = AddMs(startFinder, fineStep)
               /\ pc' = pc
               /\ UNCHANGED << periodStart, endFinder >>
          ELSE /\ periodStart' = startFinder
               /\ endFinder' = currentDate
               /\ pc' = "A_endCoarse"
               /\ UNCHANGED startFinder
    /\ UNCHANGED << env, outer, startDate, currentDate, searchDate, result, history >>

\* B_FwdCoarse with the horizon tested before the step instead of after it
B_FwdCoarse_CheckBeforeStep ==
    /\ pc = "B_fwdCoarse"
    /\ IF ~InBand(searchDate)
          THEN IF DiffExceeds(searchDate, currentDate, MaxSearchMinutes)
                  THEN /\ pc' = "thrown"
                       /\ result' = Thrown(SearchExhausted)
                       /\ history' = Append(history,
                              [ref |-> startDate, res |-> Thrown(SearchExhausted)])
                       /\ UNCHANGED searchDate
                  ELSE /\ searchDate' = AddMs(searchDate, coarseStep)
                       /\ pc' = pc
                       /\ UNCHANGED << result, history >>
          ELSE /\ pc' = "B_backFine"
               /\ UNCHANGED << searchDate, result, history >>
    /\ UNCHANGED << env, outer, startDate, currentDate, startFinder, endFinder, periodStart >>

\* B_FwdCoarse throwing at >= 30 days instead of > 30 days
B_FwdCoarse_ThrowAtHorizon ==
    /\ pc = "B_fwdCoarse"
    /\ IF ~InBand(searchDate)
          THEN LET next == AddMs(searchDate, coarseStep)
               IN  /\ searchDate' = next
                   /\ IF \/ DiffExceeds(next, currentDate, MaxSearchMinutes)
                         \/ next = AddMs([min |-> currentDate.min + MaxSearchMinutes,
                                          ms |-> currentDate.ms], 0)
                         THEN /\ pc' = "thrown"
                              /\ result' = Thrown(SearchExhausted)
                              /\ history' = Append(history,
                                     [ref |-> startDate, res |-> Thrown(SearchExhausted)])
                         ELSE /\ pc' = pc
                              /\ UNCHANGED << result, history >>
          ELSE /\ pc' = "B_backFine"
               /\ UNCHANGED << searchDate, result, history >>
    /\ UNCHANGED << env, outer, startDate, currentDate, startFinder, endFinder, periodStart >>

\* Mode B: while (!isSwathi(...(searchDate))) { searchDate += coarseStep;
\*   if (searchDate - currentDate > 30 days) throw ... }
B_FwdCoarse ==
    /\ pc = "B_fwdCoarse"
    /\ IF ~InBand(searchDate)
          THEN LET next == AddMs(searchDate, coarseStep)
               IN  /\ searchDate' = next
                   /\ IF DiffExceeds(next, currentDate, MaxSearchMinutes)
                         THEN /\ pc' = "thrown"
                              /\ result' = Thrown(SearchExhausted)
                              /\ history' = Append(history,
                                     [ref |-> startDate, res |-> Thrown(SearchExhausted)])
                         ELSE /\ pc' = pc
                              /\ UNCHANGED << result, history >>
          ELSE /\ pc' = "B_backFine"
               /\ UNCHANGED << searchDate, result, history >>
    /\ UNCHANGED << env, outer, startDate, currentDate, startFinder, endFinder, periodStart >>

\* B_BackFine starting the end search at the reference, as Mode A does,
\* instead of at periodStart
B_BackFine_EndFromReference ==
    /\ pc = "B_backFine"
    /\ IF InBand(AddMs(searchDate, -fineStep))
          THEN /\ searchDate' = AddMs(searchDate, -fineStep)
               /\ pc' = pc
               /\ UNCHANGED << periodStart, endFinder >>
          ELSE /\ periodStart' = searchDate
               /\ endFinder' = currentDate
               /\ pc' = "B_endCoarse"
               /\ UNCHANGED searchDate
    /\ UNCHANGED << env, outer, startDate, currentDate, startFinder, result, history >>

\* B_BackFine testing the probe itself instead of the instant one fine step
\* before it
B_BackFine_TestsProbe ==
    /\ pc = "B_backFine"
    /\ IF InBand(searchDate)
          THEN /\ searchDate' = AddMs(searchDate, -fineStep)
               /\ pc' = pc
               /\ UNCHANGED << periodStart, endFinder >>
          ELSE /\ periodStart' = searchDate
               /\ endFinder' = searchDate
               /\ pc' = "B_endCoarse"
               /\ UNCHANGED searchDate
    /\ UNCHANGED << env, outer, startDate, currentDate, startFinder, result, history >>

\* B_BackFine without the refining loop: the first in-band coarse probe is
\* taken as the start
B_BackFine_NoRefine ==
    /\ pc = "B_backFine"
    /\ periodStart' = searchDate
    /\ endFinder' = searchDate
    /\ pc' = "B_endCoarse"
    /\ UNCHANGED << env, outer, startDate, currentDate, startFinder, searchDate, result, history >>

\* Mode B: while (isSwathi(...(searchDate - fineStep))) searchDate -= fineStep;
\* then periodStart = new Date(searchDate), endFinder = new Date(periodStart)
B_BackFine ==
    /\ pc = "B_backFine"
    /\ IF InBand(AddMs(searchDate, -fineStep))
          THEN /\ searchDate' = AddMs(searchDate, -fineStep)
               /\ pc' = pc
               /\ UNCHANGED << periodStart, endFinder >>
          ELSE /\ periodStart' = searchDate
               /\ endFinder' = searchDate
               /\ pc' = "B_endCoarse"
               /\ UNCHANGED searchDate
    /\ UNCHANGED << env, outer, startDate, currentDate, startFinder, result, history >>

\* Coarse search forwards: while (isSwathi(...(endFinder))) endFinder += coarseStep
EndCoarse(here, next) ==
    /\ pc = here
    /\ IF InBand(endFinder)
          THEN /\ endFinder' = AddMs(endFinder, coarseStep)
               /\ pc' = pc
          ELSE /\ pc' = next
               /\ UNCHANGED endFinder
    /\ UNCHANGED << env, outer, startDate, currentDate, startFinder, searchDate,
                    periodStart, result, history >>

\* the return of EndFine with periodEnd = e
EndFineWith(here, e) ==
    /\ pc = here
    /\ IF ~InBand(endFinder)
          THEN /\ endFinder' = AddMs(endFinder, -fineStep)
               /\ pc' = pc
               /\ UNCHANGED << result, history >>
          ELSE /\ result' = Returned(periodStart, e)
               /\ history' = Append(history,
                      [ref |-> startDate, res |-> Returned(periodStart, e)])
               /\ pc' = "returned"
               /\ UNCHANGED endFinder
    /\ UNCHANGED << env, outer, startDate, currentDate, startFinder, searchDate, periodStart >>

\* EndFine without "Add one more minute": the last in-band probe is the end
EndFine_NoFineStep(here) == EndFineWith(here, endFinder)

\* EndFine adding a coarse step instead of a fine step
EndFine_AddsCoarseStep(here) == EndFineWith(here, AddMs(endFinder, coarseStep))

\* EndFine without the refining loop: the first out-of-band coarse probe plus
\* one fine step is the end
EndFine_NoRefine(here) ==
    /\ pc = here
    /\ result' = Returned(periodStart, AddMs(endFinder, fineStep))
    /\ history' = Append(history,
           [ref |-> startDate, res |-> Returned(periodStart, AddMs(endFinder, fineStep))])
    /\ pc' = "returned"
    /\ UNCHANGED << env, outer, startDate, currentDate, startFinder, endFinder, searchDate,
                    periodStart >>

\* Fine tune backwards: while (!isSwathi(...(endFinder))) endFinder -= fineStep;
\* then periodEnd = new Date(endFinder + fineStep); return { start, end }
EndFine(here) ==
    /\ pc = here
    /\ IF ~InBand(endFinder)
          THEN /\ endFinder' = AddMs(endFinder, -fineStep)
               /\ pc' = pc
               /\ UNCHANGED << result, history >>
          ELSE LET periodEnd == AddMs(endFinder, fineStep)
               IN  /\ result' = Returned(periodStart, periodEnd)
                   /\ history' = Append(history,
                          [ref |-> startDate, res |-> Returned(periodStart, periodEnd)])
                   /\ pc' = "returned"
                   /\ UNCHANGED endFinder
    /\ UNCHANGED << env, outer, startDate, currentDate, startFinder, searchDate, periodStart >>

\* Mode A, the end search
A_EndCoarse == EndCoarse("A_endCoarse", "A_endFine")

A_EndFine == EndFine("A_endFine")

\* Mode B, the end search
B_EndCoarse == EndCoarse("B_endCoarse", "B_endFine")

B_EndFine == EndFine("B_endFine")

-----------------------------------------------------------------------------
(* findCurrentOrNextSwathiPeriod of part_001 (utils/nakshatra-calculator):
   coarse step of one hour, no search horizon, and a longitude that needs the
   SunCalc library *)

\* const coarseStep = 60 * 60 * 1000
NC_coarseStep == 60 * 60 * 1000

SunCalcMissing ==
    "SunCalc library is not loaded. Please check the script tag in your HTML file."

\* number of coarse steps past MaxSearchMinutes up to which the model follows
\* the forward scan of part_001, which has no horizon of its own
MaxOverrun == 2

NC_CoarseMinutes == NC_coarseStep \div MsPerMinute

NC_ScanLimit == MaxSearchMinutes \div NC_CoarseMinutes + MaxOverrun

\* The call: getLunarSiderealLongitude(currentDate) throws when window.SunCalc
\* is undefined; otherwise the mode test.
NC_Enter(ref) ==
    /\ startDate' = ref
    /\ currentDate' = ref
    /\ endFinder' = NoDate
    /\ periodStart' = NoDate
    /\ IF ~sunCalc
          THEN /\ pc' = "thrown"
               /\ result' = Thrown(SunCalcMissing)
               /\ history' = Append(history, [ref |-> ref, res |-> Thrown(SunCalcMissing)])
               /\ startFinder' = NoDate
               /\ searchDate' = NoDate
          ELSE /\ result' = NoResult
               /\ UNCHANGED history
               /\ IF isSwathi(getLunarSiderealLongitude(ref))
                     THEN /\ pc' = "NC_A_backCoarse"
                          /\ startFinder' = ref
                          /\ searchDate' = NoDate
                     ELSE /\ pc' = "NC_B_fwdCoarse"
                          /\ searchDate' = ref
                          /\ startFinder' = NoDate
    /\ UNCHANGED env

\* Mode A: while (isSwathi(...(startFinder))) startFinder.setTime(... - coarseStep)
NC_A_BackCoarse ==
    /\ pc = "NC_A_backCoarse"
    /\ IF NC_InBand(startFinder)
          THEN /\ startFinder' = AddMs(startFinder, -NC_coarseStep)
               /\ pc' = pc
          ELSE /\ pc' = "NC_A_fwdFine"
               /\ UNCHANGED startFinder
    /\ UNCHANGED << env, outer, startDate, currentDate, endFinder, searchDate,
                    periodStart, result, history >>

\* Mode A: while (!isSwathi(...(startFinder))) startFinder.setTime(... + fineStep);
\* then periodStart = startFinder, endFinder = new Date(currentDate)
NC_A_FwdFine ==
    /\ pc = "NC_A_fwdFine"
    /\ IF ~NC_InBand(startFinder)
          THEN /\ startFinder' = AddMs(startFinder, fineStep)
               /\ pc' = pc
               /\ UNCHANGED << periodStart, endFinder >>
          ELSE /\ periodStart' = startFinder
               /\ endFinder' = currentDate
               /\ pc' = "NC_A_endCoarse"
               /\ UNCHANGED startFinder
    /\ UNCHANGED << env, outer, startDate, currentDate, searchDate, result, history >>

\* Mode B: while (!isSwathi(...(searchDate))) searchDate.setTime(... + coarseStep),
\* followed as far as NC_ScanLimit steps
NC_B_FwdCoarse ==
    /\ pc = "NC_B_fwdCoarse"
    /\ IF ~NC_InBand(searchDate)
          THEN /\ searchDate.min - currentDate.min < NC_ScanLimit * NC_CoarseMinutes
               /\ searchDate' = AddMs(searchDate, NC_coarseStep)
               /\ pc' = pc
          ELSE /\ pc' = "NC_B_backFine"
               /\ UNCHANGED searchDate
    /\ UNCHANGED << env, outer, startDate, currentDate, startFinder, endFinder,
                    periodStart, result, history >>

\* Mode B: while (isSwathi(...(searchDate - fineStep))) searchDate.setTime(... - fineStep);
\* then periodStart = searchDate, endFinder = new Date(periodStart)
NC_B_BackFine ==
    /\ pc = "NC_B_backFine"
    /\ IF NC_InBand(AddMs(searchDate, -fineStep))
          THEN /\ searchDate' = AddMs(searchDate, -fineStep)
               /\ pc' = pc
               /\ UNCHANGED << periodStart, endFinder >>
          ELSE /\ periodStart' = searchDate
               /\ endFinder' = searchDate
               /\ pc' = "NC_B_endCoarse"
               /\ UNCHANGED searchDate
    /\ UNCHANGED << env, outer, startDate, currentDate, startFinder, result, history >>

\* while (isSwathi(...(endFinder))) endFinder.setTime(... + coarseStep)
NC_EndCoarse(here, next) ==
    /\ pc = here
    /\ IF NC_InBand(endFinder)
          THEN /\ endFinder' = AddMs(endFinder, NC_coarseStep)
               /\ pc' = pc
          ELSE /\ pc' = next
               /\ UNCHANGED endFinder
    /\ UNCHANGED << env, outer, startDate, currentDate, startFinder, searchDate,
                    periodStart, result, history >>

\* "Refine to the minute": while (isSwathi(...(endFinder))) endFinder.setTime(... + fineStep);
\* then periodEnd = endFinder; return { start, end }
NC_EndFine(here) ==
    /\ pc = here
    /\ IF NC_InBand(endFinder)
          THEN /\ endFinder' = AddMs(endFinder, fineStep)
               /\ pc' = pc
               /\ UNCHANGED << result, history >>
          ELSE /\ result' = Returned(periodStart, endFinder)
               /\ history' = Append(history,
                      [ref |-> startDate, res |-> Returned(periodStart, endFinder)])
               /\ pc' = "returned"
               /\ UNCHANGED endFinder
    /\ UNCHANGED << env, outer, startDate, currentDate, startFinder, searchDate, periodStart >>

NC_A_EndCoarse == NC_EndCoarse("NC_A_endCoarse", "NC_A_endFine")

NC_A_EndFine == NC_EndFine("NC_A_endFine")

NC_B_EndCoarse == NC_EndCoarse("NC_B_endCoarse", "NC_B_endFine")

NC_B_EndFine == NC_EndFine("NC_B_endFine")

-----------------------------------------------------------------------------
(* findCurrentOrNextSwathiPeriod of App.tsx, pc labels prefixed LF_ *)

\* isSwathi(getMoonSiderealLongitude(date)) with App.tsx's longitude
LF_InBand(date) == isSwathi(LF_getMoonSiderealLongitude(date))

\* const coarseStep = 60 * 60 * 1000
LF_coarseStep == 60 * 60 * 1000

LF_CoarseMinutes == LF_coarseStep \div MsPerMinute

\* the forward scan of App.tsx has no horizon either: the model follows it
\* MaxOverrun coarse steps past MaxSearchMinutes
LF_ScanLimit == MaxSearchMinutes \div LF_CoarseMinutes + MaxOverrun

\* The call and the mode test
LF_Enter(ref) ==
    /\ startDate' = ref
    /\ currentDate' = ref
    /\ result' = NoResult
    /\ endFinder' = NoDate
    /\ periodStart' = NoDate
    /\ IF isSwathi(LF_getMoonSiderealLongitude(ref))
          THEN /\ pc' = "LF_A_backCoarse"
               /\ startFinder' = ref
               /\ searchDate' = NoDate
          ELSE /\ pc' = "LF_B_fwdCoarse"
               /\ searchDate' = ref
               /\ startFinder' = NoDate
    /\ UNCHANGED << env, history >>

\* Mode A: while (isSwathi(...(startFinder))) startFinder -= coarseStep
LF_A_BackCoarse ==
    /\ pc = "LF_A_backCoarse"
    /\ IF LF_InBand(startFinder)
          THEN /\ startFinder' = AddMs(startFinder, -LF_coarseStep)
               /\ pc' = pc
          ELSE /\ pc' = "LF_A_fwdFine"
               /\ UNCHANGED startFinder
    /\ UNCHANGED << env, outer, startDate, currentDate, endFinder, searchDate,
                    periodStart, result, history >>

\* Mode A: while (!isSwathi(...(startFinder))) startFinder += fineStep;
\* then periodStart = startFinder, endFinder = new Date(currentDate)
LF_A_FwdFine ==
    /\ pc = "LF_A_fwdFine"
    /\ IF ~LF_InBand(startFinder)
          THEN /\ startFinder' = AddMs(startFinder, fineStep)
               /\ pc' = pc
               /\ UNCHANGED << periodStart, endFinder >>
          ELSE /\ periodStart' = startFinder
               /\ endFinder' = currentDate
               /\ pc' = "LF_A_endCoarse"
               /\ UNCHANGED startFinder
    /\ UNCHANGED << env, outer, startDate, currentDate, searchDate, result, history >>

\* Mode B: while (!isSwathi(...(searchDate))) searchDate += coarseStep,
\* followed as far as LF_ScanLimit steps
LF_B_FwdCoarse ==
    /\ pc = "LF_B_fwdCoarse"
    /\ IF ~LF_InBand(searchDate)
          THEN /\ searchDate.min - currentDate.min < LF_ScanLimit * LF_CoarseMinutes
               /\ searchDate' = AddMs(searchDate, LF_coarseStep)
               /\ pc' = pc
          ELSE /\ pc' = "LF_B_backFine"
               /\ UNCHANGED searchDate
    /\ UNCHANGED << env, outer, startDate, currentDate, startFinder, endFinder,
                    periodStart, result, history >>

\* Mode B: while (!isSwathi(...(searchDate - fineStep))) searchDate -= fineStep;
\* then periodStart = searchDate, endFinder = new Date(periodStart)
LF_B_BackFine ==
    /\ pc = "LF_B_backFine"
    /\ IF ~LF_InBand(AddMs(searchDate, -fineStep))
          THEN /\ searchDate' = AddMs(searchDate, -fineStep)
               /\ pc' = pc
               /\ UNCHANGED << periodStart, endFinder >>
          ELSE /\ periodStart' = searchDate
               /\ endFinder' = searchDate
               /\ pc' = "LF_B_endCoarse"
               /\ UNCHANGED searchDate
    /\ UNCHANGED << env, outer, startDate, currentDate, startFinder, result, history >>

\* while (isSwathi(...(endFinder))) endFinder += coarseStep
LF_EndCoarse(here, next) ==
    /\ pc = here
    /\ IF LF_InBand(endFinder)
          THEN /\ endFinder' = AddMs(endFinder, LF_coarseStep)
               /\ pc' = pc
          ELSE /\ pc' = next
               /\ UNCHANGED endFinder
    /\ UNCHANGED << env, outer, startDate, currentDate, startFinder, searchDate,
                    periodStart, result, history >>

\* while (isSwathi(...(endFinder - fineStep))) endFinder -= fineStep;
\* then periodEnd = endFinder; return { start: periodStart, end: periodEnd }
LF_EndFine(here) ==
    /\ pc = here
    /\ IF LF_InBand(AddMs(endFinder, -fineStep))
          THEN /\ endFinder' = AddMs(endFinder, -fineStep)
               /\ pc' = pc
               /\ UNCHANGED << result, history >>
          ELSE /\ result' = Returned(periodStart, endFinder)
               /\ history' = Append(history,
                      [ref |-> startDate, res |-> Returned(periodStart, endFinder)])
               /\ pc' = "returned"
               /\ UNCHANGED endFinder
    /\ UNCHANGED << env, outer, startDate, currentDate, startFinder, searchDate,
                    periodStart >>

LF_A_EndCoarse == LF_EndCoarse("LF_A_endCoarse", "LF_A_endFine")

LF_A_EndFine == LF_EndFine("LF_A_endFine")

LF_B_EndCoarse == LF_EndCoarse("LF_B_endCoarse", "LF_B_endFine")

LF_B_EndFine == LF_EndFine("LF_B_endFine")

-----------------------------------------------------------------------------
(* App, before it is mounted *)

\* activePeriod = null
NoPeriod == [start |-> NoDate, end |-> NoDate]

\* useState(null), useState(false), useState(true), useState(null) of App and
\* useState(null) of NotificationManager
AppUnmounted ==
    /\ now = NoDate
    /\ activePeriod = NoPeriod
    /\ isSwathiActive = FALSE
    /\ target = NoDate
    /\ isLoading = TRUE
    /\ error = ""
    /\ permission = "default"
    /\ mounted = FALSE
    /\ lastNotified = NoDate
    /\ notified = << >>

-----------------------------------------------------------------------------
(* The runs checked *)

\* The longitude models tried, each [L0, period, amp, wper]: longitude L0 at
\* J2000, one revolution every `period` minutes, a periodic correction of
\* amplitude amp and period wper minutes.
\*   Moon      the Moon: L' = 218.3164477 degrees at J2000, a revolution in
\*             27.32 days, the leading periodic term of 6.29 degrees over an
\*             anomalistic month of 27.55 days
\*   Jitter    a double whose correction makes the longitude cross a band
\*             edge several times within one coarse step
\*   Flicker   the same with crossings one minute apart
\*   Fast270, Fast810, Fast2700
\*             doubles that cross the band in 10, 30 and 100 minutes
\*   Rocking   a double that swings 5 degrees around 100 degrees and is never
\*             inside the band
Moon      == [L0 |-> 21831645, period |-> 39343, amp |-> 628750, wper |-> 39679]
Jitter    == [L0 |-> 400000,   period |-> 5400,  amp |-> 100000, wper |-> 40]
Flicker   == [L0 |-> 800000,   period |-> 5400,  amp |-> 20000,  wper |-> 4]
Fast270   == [L0 |-> 21831645, period |-> 270,   amp |-> 0,      wper |-> 0]
Fast810   == [L0 |-> 21831645, period |-> 810,   amp |-> 0,      wper |-> 0]
Fast2700  == [L0 |-> 21831645, period |-> 2700,  amp |-> 0,      wper |-> 0]
Rocking   == [L0 |-> 10000000, period |-> 0,     amp |-> 500000, wper |-> 600]

Providers == {Moon, Jitter, Flicker, Fast270, Fast810, Fast2700, Rocking}

\* the first reference instant tried, in minutes after J2000:
\* 9806 days, 22 hours and 40 minutes, which is 2026-11-07T10:40:00Z
RefBase == (9806 * 24 + 22) * 60 + 40

\* distance between the reference instants tried, in minutes
RefStride == 11 * 60 + 37

\* the millisecond parts tried
RefMs == {0, MsPerMinute - 1}

References ==
    { [min |-> RefBase + k * RefStride, ms |-> ms] : k \in 0..NumRefs, ms \in RefMs }

\* The instants a caller passes: first any reference; later either an
\* instant passed before, or the end of the period just returned plus 1 ms.
CallRefs ==
    IF history = << >> THEN References
    ELSE { history[i].ref : i \in 1..Len(history) }
         \cup (IF result.ok THEN {AddMs(result.end, 1)} ELSE {})

Call ==
    /\ pc \in {"idle", "returned", "thrown"}
    /\ Len(history) < MaxCalls
    /\ \E ref \in CallRefs :
          IF impl = "part_000" THEN Enter(ref) ELSE NC_Enter(ref)
    /\ UNCHANGED outer

Init ==
    /\ impl \in {"part_000", "part_001"}
    /\ sunCalc \in (IF impl = "part_001" THEN BOOLEAN ELSE {FALSE})
    /\ provider \in Providers
    /\ pc = "idle"
    /\ startDate = NoDate
    /\ currentDate = NoDate
    /\ startFinder = NoDate
    /\ endFinder = NoDate
    /\ searchDate = NoDate
    /\ periodStart = NoDate
    /\ result = NoResult
    /\ history = << >>
    /\ instant = 0
    /\ answer = << >>
    /\ verdict = << >>
    /\ AppUnmounted

Next ==
    \/ Call
    \/ A_BackCoarse
    \/ A_FwdFine
    \/ A_EndCoarse
    \/ A_EndFine
    \/ B_FwdCoarse
    \/ B_BackFine
    \/ B_EndCoarse
    \/ B_EndFine
    \/ NC_A_BackCoarse
    \/ NC_A_FwdFine
    \/ NC_A_EndCoarse
    \/ NC_A_EndFine
    \/ NC_B_FwdCoarse
    \/ NC_B_BackFine
    \/ NC_B_EndCoarse
    \/ NC_B_EndFine

Spec == Init /\ [][Next]_vars

\* A call runs to completion: the loops of the locator are synchronous code,
\* so a step of a call in progress is always taken.  Only the caller may stop.
LocatorStep ==
    \/ A_BackCoarse
    \/ A_FwdFine
    \/ A_EndCoarse
    \/ A_EndFine
    \/ B_FwdCoarse
    \/ B_BackFine
    \/ B_EndCoarse
    \/ B_EndFine
    \/ NC_A_BackCoarse
    \/ NC_A_FwdFine
    \/ NC_A_EndCoarse
    \/ NC_A_EndFine
    \/ NC_B_FwdCoarse
    \/ NC_B_BackFine
    \/ NC_B_EndCoarse
    \/ NC_B_EndFine

FairSpec == Spec /\ WF_vars(LocatorStep)

-----------------------------------------------------------------------------
(* The locator on the Moon's own motion *)

\* Lp advances by 481267.88123421 degrees a century, 13.1764 degrees a day.
\* The 22 terms of sigmaL change it by at most the sum of
\* |coefficient| * |rate of the argument|, 2.2417 degrees a day, so the
\* longitude advances by 10.9347 to 15.4181 degrees a day: one revolution in
\* 47409 minutes at the slowest and in 33622 minutes at the fastest.
MoonSlowest == [L0 |-> 21831645, period |-> 47409, amp |-> 0, wper |-> 0]

MoonSwiftest == [L0 |-> 21831645, period |-> 33622, amp |-> 0, wper |-> 0]

LunarProviders == {Moon, MoonSlowest, MoonSwiftest}

LunarInit ==
    /\ impl \in {"part_000", "part_001"}
    /\ sunCalc \in (IF impl = "part_001" THEN BOOLEAN ELSE {FALSE})
    /\ provider \in LunarProviders
    /\ pc = "idle"
    /\ startDate = NoDate
    /\ currentDate = NoDate
    /\ startFinder = NoDate
    /\ endFinder = NoDate
    /\ searchDate = NoDate
    /\ periodStart = NoDate
    /\ result = NoResult
    /\ history = << >>
    /\ instant = 0
    /\ answer = << >>
    /\ verdict = << >>
    /\ AppUnmounted

LunarSpec == LunarInit /\ [][Next]_vars

-----------------------------------------------------------------------------
(* App: calculatePeriod, the one-second timer and NotificationManager *)

\* a longitude model with a revolution of 40 days: after a period the next one
\* begins more than 30 days later
Slow == [L0 |-> 15173000, period |-> 57600, amp |-> 0, wper |-> 0]

AppProviders == {Moon, Fast2700, Slow, Rocking}

\* with the locator of part_001, whose scan has no horizon, the models that
\* enter the band within 30 days
HookProviders == {Moon, Fast2700}

\* number of calls of calculatePeriod in one run of App
MaxCalcs == 2

\* number of timer ticks followed while activePeriod is null
MaxIdleTicks == 2

\* Render whose effect does not compare nextSwathiStart with lastNotified
Render_NoKeyCheck(period, active, loading, err) ==
    LET shown == impl = "part_000" /\ ~loading /\ err = ""
        last  == IF mounted THEN lastNotified ELSE NoDate
        fire  == /\ shown
                 /\ active
                 /\ permission = "granted"
                 /\ period # NoPeriod
    IN  /\ mounted' = shown
        /\ lastNotified' = IF ~shown THEN NoDate
                           ELSE IF fire THEN period.start ELSE last
        /\ notified' = IF fire THEN Append(notified, period.start) ELSE notified

\* The commit of a render with the state (period, active, loading, err), and
\* the effect of NotificationManager that follows it.  App renders
\* NotificationManager when !isLoading && !error; a NotificationManager that
\* was not rendered starts again from useState(null).  The effect creates a
\* notification when isSwathiActive && permission === 'granted' &&
\* nextSwathiStart && nextSwathiStart.getTime() !== lastNotified.
\* The component that hosts useNakshatra is not among the sources: with that
\* hook no NotificationManager is rendered here.
Render(period, active, loading, err) ==
    LET shown == impl = "part_000" /\ ~loading /\ err = ""
        last  == IF mounted THEN lastNotified ELSE NoDate
        fire  == /\ shown
                 /\ active
                 /\ permission = "granted"
                 /\ period # NoPeriod
                 /\ period.start # last
    IN  /\ mounted' = shown
        /\ lastNotified' = IF ~shown THEN NoDate
                           ELSE IF fire THEN period.start ELSE last
        /\ notified' = IF fire THEN Append(notified, period.start) ELSE notified

\* calculatePeriod(date) up to its await: setIsLoading(true), setError(null),
\* and the call of findCurrentOrNextSwathiPeriod(date)
calculatePeriod(date) ==
    /\ isLoading' = TRUE
    /\ error' = ""
    /\ IF impl = "part_000" THEN Enter(date) ELSE NC_Enter(date)

\* useEffect(() => { calculatePeriod(new Date()) }, [calculatePeriod])
Mount ==
    /\ now = NoDate
    /\ pc = "idle"
    /\ \E d \in References :
          /\ now' = d
          /\ calculatePeriod(d)
    /\ UNCHANGED << query, activePeriod, isSwathiActive, target, permission,
                    mounted, lastNotified, notified >>

\* Settle without the finally clause: setIsLoading(false) follows
\* setActivePeriod(period) inside the try block
Settle_NoFinally ==
    /\ pc \in {"returned", "thrown"}
    /\ isLoading
    /\ pc' = "idle"
    /\ activePeriod' = IF result.ok THEN [start |-> result.start, end |-> result.end]
                                    ELSE activePeriod
    /\ error' = IF ~result.ok /\ impl = "part_000" THEN result.error ELSE error
    /\ isLoading' = ~result.ok
    /\ Render(activePeriod', isSwathiActive, isLoading', error')
    /\ UNCHANGED << env, query, startDate, locals, result, history,
                    now, isSwathiActive, target, permission >>

\* calculatePeriod after its await: setActivePeriod(period), or in the catch
\* clause setError(message) (the hook useNakshatra only logs the error),
\* and finally setIsLoading(false)
Settle ==
    /\ pc \in {"returned", "thrown"}
    /\ isLoading
    /\ pc' = "idle"
    /\ activePeriod' = IF result.ok THEN [start |-> result.start, end |-> result.end]
                                    ELSE activePeriod
    /\ error' = IF ~result.ok /\ impl = "part_000" THEN result.error ELSE error
    /\ isLoading' = FALSE
    /\ Render(activePeriod', isSwathiActive, FALSE, error')
    /\ UNCHANGED << env, query, startDate, locals, result, history,
                    now, isSwathiActive, target, permission >>

\* the instants at which the timer is seen to fire: one second after the
\* last one while activePeriod is null, else around the period's two ends
TickInstants ==
    IF activePeriod = NoPeriod
    THEN { t \in {AddMs(now, 1000)} :
             DateLT(t, AddMs(history[1].ref, (MaxIdleTicks + 1) * 1000)) }
    ELSE { t \in { AddMs(activePeriod.start, -1000), activePeriod.start,
                   AddMs(activePeriod.start, 1000),
                   AddMs(activePeriod.end, -1000), activePeriod.end,
                   AddMs(activePeriod.end, 1), AddMs(activePeriod.end, 1000) } :
             DateLT(now, t) }

\* isActiveAt without the test against the period's end
isActiveAt_StartOnly(t) == DateLE(activePeriod.start, t)

\* isActiveAt with the period's end excluded
isActiveAt_EndExcluded(t) ==
    DateLE(activePeriod.start, t) /\ DateLT(t, activePeriod.end)

\* const isActive = now >= activePeriod.start && now <= activePeriod.end
isActiveAt(t) ==
    DateLE(activePeriod.start, t) /\ DateLE(t, activePeriod.end)

\* PeriodOver as a plain else: every tick outside the period recalculates
PeriodOver_Always(t) == TRUE

\* else if (now > activePeriod.end)
PeriodOver(t) == DateLT(activePeriod.end, t)

\* the callback of setInterval(..., 1000)
Tick ==
    /\ pc = "idle"
    /\ now # NoDate
    /\ \E t \in TickInstants :
          /\ now' = t
          /\ IF activePeriod = NoPeriod
                THEN UNCHANGED << isSwathiActive, target, isLoading, error, mounted,
                                  lastNotified, notified, pc, startDate, locals,
                                  result, history >>
                ELSE LET isActive == isActiveAt(t)
                     IN  /\ isSwathiActive' = isActive
                         /\ IF isActive
                               THEN /\ target' = activePeriod.end
                                    /\ Render(activePeriod, TRUE, isLoading, error)
                                    /\ UNCHANGED << isLoading, error, pc, startDate,
                                                    locals, result, history >>
                               ELSE IF PeriodOver(t)
                               THEN /\ Len(history) < MaxCalcs
                                    /\ calculatePeriod(t)
                                    /\ \/ Render(activePeriod, FALSE, TRUE, "")
                                       \/ Render(activePeriod, FALSE, isLoading, error)
                                    /\ UNCHANGED target
                               ELSE /\ target' = activePeriod.start
                                    /\ Render(activePeriod, FALSE, isLoading, error)
                                    /\ UNCHANGED << isLoading, error, pc, startDate,
                                                    locals, result, history >>
    /\ UNCHANGED << env, query, activePeriod, permission >>

AppInit ==
    /\ impl \in {"part_000", "part_001"}
    /\ sunCalc \in (IF impl = "part_001" THEN BOOLEAN ELSE {FALSE})
    /\ provider \in (IF impl = "part_000" THEN AppProviders ELSE HookProviders)
    /\ pc = "idle"
    /\ startDate = NoDate
    /\ currentDate = NoDate
    /\ startFinder = NoDate
    /\ endFinder = NoDate
    /\ searchDate = NoDate
    /\ periodStart = NoDate
    /\ result = NoResult
    /\ history = << >>
    /\ instant = 0
    /\ answer = << >>
    /\ verdict = << >>
    /\ now = NoDate
    /\ activePeriod = NoPeriod
    /\ isSwathiActive = FALSE
    /\ target = NoDate
    /\ isLoading = TRUE
    /\ error = ""
    /\ permission \in {"default", "granted"}
    /\ mounted = FALSE
    /\ lastNotified = NoDate
    /\ notified = << >>

AppNext ==
    \/ Mount
    \/ Settle
    \/ Tick
    \/ A_BackCoarse
    \/ A_FwdFine
    \/ A_EndCoarse
    \/ A_EndFine
    \/ B_FwdCoarse
    \/ B_BackFine
    \/ B_EndCoarse
    \/ B_EndFine
    \/ NC_A_BackCoarse
    \/ NC_A_FwdFine
    \/ NC_A_EndCoarse
    \/ NC_A_EndFine
    \/ NC_B_FwdCoarse
    \/ NC_B_BackFine
    \/ NC_B_EndCoarse
    \/ NC_B_EndFine

AppSpec == AppInit /\ [][AppNext]_vars

\* calculatePeriod resumes after its await as soon as the promise of
\* findCurrentOrNextSwathiPeriod is settled: the continuation is a microtask,
\* which no timer callback can overtake
AppFairSpec == AppSpec /\ WF_vars(Settle)

-----------------------------------------------------------------------------
(* The locators without a horizon: App.tsx and part_001 *)

\* App.tsx's own mean Moon: 218.316 degrees at J2000, one turn in
\* LUNAR_MONTH = 27.321661 days
MeanMoon == [L0 |-> 21831600, period |-> 39343, amp |-> 0, wper |-> 0]

VariantProviders == {MeanMoon, Fast2700, Rocking}

\* the first reference instant tried, in minutes after J2000:
\* 9807 days, 16 hours and 4 minutes, which is 2026-11-08T04:04:00Z
VariantRefBase == (9807 * 24 + 16) * 60 + 4

\* distance between the reference instants tried, in minutes
VariantRefStride == 10 * 60 + 41

VariantReferences ==
    { [min |-> VariantRefBase + k * VariantRefStride, ms |-> ms] :
          k \in 0..NumRefs, ms \in RefMs }

VariantCallRefs ==
    IF history = << >> THEN VariantReferences
    ELSE { history[i].ref : i \in 1..Len(history) }
         \cup (IF result.ok THEN {AddMs(result.end, 1)} ELSE {})

VariantCall ==
    /\ pc \in {"idle", "returned", "thrown"}
    /\ Len(history) < MaxCalls
    /\ \E ref \in VariantCallRefs :
          IF impl = "App.tsx" THEN LF_Enter(ref) ELSE NC_Enter(ref)
    /\ UNCHANGED outer

VariantInit ==
    /\ impl \in {"App.tsx", "part_001"}
    /\ sunCalc \in (IF impl = "part_001" THEN BOOLEAN ELSE {FALSE})
    /\ provider \in VariantProviders
    /\ pc = "idle"
    /\ startDate = NoDate
    /\ currentDate = NoDate
    /\ startFinder = NoDate
    /\ endFinder = NoDate
    /\ searchDate = NoDate
    /\ periodStart = NoDate
    /\ result = NoResult
    /\ history = << >>
    /\ instant = 0
    /\ answer = << >>
    /\ verdict = << >>
    /\ AppUnmounted

VariantNext ==
    \/ VariantCall
    \/ LF_A_BackCoarse
    \/ LF_A_FwdFine
    \/ LF_A_EndCoarse
    \/ LF_A_EndFine
    \/ LF_B_FwdCoarse
    \/ LF_B_BackFine
    \/ LF_B_EndCoarse
    \/ LF_B_EndFine
    \/ NC_A_BackCoarse
    \/ NC_A_FwdFine
    \/ NC_A_EndCoarse
    \/ NC_A_EndFine
    \/ NC_B_FwdCoarse
    \/ NC_B_BackFine
    \/ NC_B_EndCoarse
    \/ NC_B_EndFine

VariantSpec == VariantInit /\ [][VariantNext]_vars

-----------------------------------------------------------------------------
(* The locator of part_000 at its search horizon *)

HorizonProviders == {Moon, Slow, Rocking}

\* the first reference instant tried: 30 days and 28 minutes before Slow enters
\* the band at minute 14179068; it is 9816 days, 13 hours and 20 minutes after
\* J2000, which is 2026-11-17T01:20:00Z
HorizonRefBase == (9816 * 24 + 13) * 60 + 20

\* distance between the reference instants tried, in minutes
HorizonRefStride == 14

\* references at the horizon's distance from the band, and the references of
\* the other runs, which Slow has inside the band
HorizonReferences ==
    { [min |-> HorizonRefBase + k * HorizonRefStride, ms |-> ms] :
          k \in 0..NumRefs, ms \in RefMs }
    \cup References

HorizonCallRefs ==
    IF history = << >> THEN HorizonReferences
    ELSE { history[i].ref : i \in 1..Len(history) }
         \cup (IF result.ok THEN {AddMs(result.end, 1)} ELSE {})

HorizonCall ==
    /\ pc \in {"idle", "returned", "thrown"}
    /\ Len(history) < MaxCalls
    /\ \E ref \in HorizonCallRefs : Enter(ref)
    /\ UNCHANGED outer

HorizonInit ==
    /\ impl = "part_000"
    /\ sunCalc = FALSE
    /\ provider \in HorizonProviders
    /\ pc = "idle"
    /\ startDate = NoDate
    /\ currentDate = NoDate
    /\ startFinder = NoDate
    /\ endFinder = NoDate
    /\ searchDate = NoDate
    /\ periodStart = NoDate
    /\ result = NoResult
    /\ history = << >>
    /\ instant = 0
    /\ answer = << >>
    /\ verdict = << >>
    /\ AppUnmounted

HorizonNext ==
    \/ HorizonCall
    \/ A_BackCoarse
    \/ A_FwdFine
    \/ A_EndCoarse
    \/ A_EndFine
    \/ B_FwdCoarse
    \/ B_BackFine
    \/ B_EndCoarse
    \/ B_EndFine

HorizonSpec == HorizonInit /\ [][HorizonNext]_vars

-----------------------------------------------------------------------------
(* Longitude queries on their own, over every day a Date can hold *)

\* A Date holds at most 100,000,000 days either side of 1970-01-01T00:00:00Z;
\* J2000 is 10958 days (less half a day) after it.
MaxDateDay == 100 * 1000 * 1000 - 10958

MinDateDay == 10957 - 100 * 1000 * 1000

\* the days queried: multiples of NearStride and of FarStride days from J2000
NumProbes == 11

\* 500,000 days are 1369 years
NearStride == 500 * 1000

\* 9,000,000 days are 24,641 years
FarStride == 9 * 1000 * 1000

ProbeDays ==
    { d \in { k * NearStride : k \in -NumProbes..NumProbes }
              \cup { k * FarStride : k \in -NumProbes..NumProbes } :
        MinDateDay <= d /\ d <= MaxDateDay }

\* (day * 24 * 60) % n for day >= 0, without leaving 32 bits
MinuteOfCycle(day, n) == ((day % n) * ((24 * 60) % n)) % n

\* getMoonSiderealLongitude(date) of part_000 for date = noon of `day`
QueryPart000(p, day) ==
    NormalizeSidereal(
        NormalizeTropical(
            (IF p.period = 0 THEN p.L0
             ELSE MeanLongitudeAt(p, MinuteOfCycle(day, p.period)))
            + (IF p.wper = 0 THEN 0 ELSE SigmaLAt(p, MinuteOfCycle(day, p.wper))))
        - AyanamshaOnDay(day))

\* getMoonSiderealLongitude(date) of App.tsx for date = noon of `day`
QueryLowFidelity(p, day) ==
    NormalizeSidereal(
        LF_TropicalAt(p, IF p.period = 0 THEN 0
                         ELSE IF day >= 0 THEN MinuteOfCycle(day, p.period)
                         ELSE -MinuteOfCycle(-day, p.period))
        - AyanamshaOnDay(day))

\* one call of getMoonSiderealLongitude
Query ==
    /\ \E day \in ProbeDays :
          /\ instant' = day
          /\ answer' = << IF impl = "part_000" THEN QueryPart000(provider, day)
                                               ELSE QueryLowFidelity(provider, day) >>
    /\ verdict' = << >>
    /\ UNCHANGED << env, app, pc, startDate, locals, result, history >>

\* the longitudes isSwathi is tried on: within BandProbeSpan units of 1e-5
\* degree of either bound of the band, and within as many degrees of it
BandProbeSpan == 3

BandProbes ==
    LET lower == ((15 - 1) * FullCircle) \div 27
        upper == (15 * FullCircle) \div 27
        steps == -BandProbeSpan..BandProbeSpan
    IN  { lower + k : k \in steps } \cup { upper + k : k \in steps }
        \cup { lower + k * 100000 : k \in steps } \cup { upper + k * 100000 : k \in steps }
        \cup { 18666700, 0, FullCircle - 1 }

\* one call of isSwathi
Classify ==
    /\ \E l \in BandProbes :
          /\ answer' = << l >>
          /\ verdict' = << isSwathi(l) >>
    /\ UNCHANGED << env, app, pc, startDate, locals, result, history, instant >>

LongitudeInit ==
    /\ impl \in {"part_000", "App.tsx"}
    /\ sunCalc = FALSE
    /\ provider \in Providers
    /\ pc = "idle"
    /\ startDate = NoDate
    /\ currentDate = NoDate
    /\ startFinder = NoDate
    /\ endFinder = NoDate
    /\ searchDate = NoDate
    /\ periodStart = NoDate
    /\ result = NoResult
    /\ history = << >>
    /\ instant = 0
    /\ answer = << >>
    /\ verdict = << >>
    /\ AppUnmounted

LongitudeNext == Query \/ Classify

LongitudeSpec == LongitudeInit /\ [][LongitudeNext]_vars

-----------------------------------------------------------------------------
(* calculateCountdown *)

ZeroCountdown == [days |-> 0, hours |-> 0, minutes |-> 0, seconds |-> 0]

\* a.getTime() - b.getTime(), as whole minutes and the milliseconds left over
\* (0 <= ms < 60000): the difference in milliseconds is min * 60000 + ms
Difference(a, b) ==
    LET ms == a.ms - b.ms
    IN  [min |-> a.min - b.min + (ms \div MsPerMinute), ms |-> ms % MsPerMinute]

\* calculateCountdown with the hours not reduced modulo 24
calculateCountdown_TotalHours(targetDate, current) ==
    IF targetDate = NoDate THEN ZeroCountdown
    ELSE LET difference == Difference(targetDate, current)
         IN  IF difference.min < 0 \/ (difference.min = 0 /\ difference.ms = 0)
             THEN ZeroCountdown
             ELSE [days    |-> difference.min \div (60 * 24),
                   hours   |-> difference.min \div 60,
                   minutes |-> difference.min % 60,
                   seconds |-> difference.ms \div 1000]

\* calculateCountdown(targetDate), `current` being the new Date() it reads.
\* null is NoDate.  Math.floor(difference / (1000 * 60 * 60 * 24)),
\* Math.floor((difference / (1000 * 60 * 60)) % 24),
\* Math.floor((difference / 1000 / 60) % 60) and
\* Math.floor((difference / 1000) % 60), for a positive difference, on the
\* whole minutes and the milliseconds left over.
calculateCountdown(targetDate, current) ==
    IF targetDate = NoDate THEN ZeroCountdown
    ELSE LET difference == Difference(targetDate, current)
         IN  IF difference.min < 0 \/ (difference.min = 0 /\ difference.ms = 0)
             THEN ZeroCountdown
             ELSE [days    |-> difference.min \div (60 * 24),
                   hours   |-> (difference.min \div 60) % 24,
                   minutes |-> difference.min % 60,
                   seconds |-> difference.ms \div 1000]

\* the longest distance tried between now and the target, in days
MaxCountdownDays == 31

\* the instants new Date() is tried at: the first reference, on the minute and
\* 1 ms before the next one
CountdownNows == { [min |-> RefBase, ms |-> ms] : ms \in RefMs }

\* the distances tried, in milliseconds within a minute and in minutes
CountdownMillis == { s * 1000 + ms : s \in {0, 1, 59}, ms \in {0, 1, 999} }

CountdownMinutes ==
    { (d * 24 + h) * 60 + m : d \in {0, 1, MaxCountdownDays}, h \in {0, 11, 23},
                              m \in {0, 59} }

\* the targets tried around `current`: null, and instants either side of it
CountdownTargets(current) ==
    {NoDate}
    \cup { AddMs([min |-> current.min + sign * m, ms |-> current.ms], sign * k) :
             m \in CountdownMinutes, k \in CountdownMillis, sign \in {-1, 1} }

\* one call of calculateCountdown(targetDate)
Countdown ==
    /\ \E current \in CountdownNows :
          \E targetDate \in CountdownTargets(current) :
              /\ now' = current
              /\ target' = targetDate
              /\ answer' = << calculateCountdown(targetDate, current) >>
    /\ UNCHANGED << env, pc, startDate, locals, result, history, instant, verdict,
                    activePeriod, isSwathiActive, isLoading, error, permission,
                    mounted, lastNotified, notified >>

CountdownInit ==
    /\ impl \in {"part_000", "part_001", "App.tsx"}
    /\ sunCalc = FALSE
    /\ provider = Moon
    /\ pc = "idle"
    /\ startDate = NoDate
    /\ currentDate = NoDate
    /\ startFinder = NoDate
    /\ endFinder = NoDate
    /\ searchDate = NoDate
    /\ periodStart = NoDate
    /\ result = NoResult
    /\ history = << >>
    /\ instant = 0
    /\ answer = << >>
    /\ verdict = << >>
    /\ AppUnmounted

CountdownNext == Countdown

CountdownSpec == CountdownInit /\ [][CountdownNext]_vars

-----------------------------------------------------------------------------
(* getLahiriAyanamsha on its own *)

\* the days queried are the multiples of AyanamshaStride days from J2000, up to
\* NumAyanamshaProbes of them either side (about 90 years)
NumAyanamshaProbes == 100

AyanamshaStride == 331

AyanamshaDays ==
    { k * AyanamshaStride : k \in -NumAyanamshaProbes..NumAyanamshaProbes }

\* one call of getLahiriAyanamsha(date), date being noon of `instant`
GetAyanamsha ==
    /\ \E day \in AyanamshaDays :
          /\ instant' = day
          /\ answer' = << getLahiriAyanamsha([min |-> day * 24 * 60, ms |-> 0]) >>
    /\ verdict' = << >>
    /\ UNCHANGED << env, app, pc, startDate, locals, result, history >>

AyanamshaInit ==
    /\ impl \in {"part_000", "part_001", "App.tsx"}
    /\ sunCalc = FALSE
    /\ provider = Moon
    /\ pc = "idle"
    /\ startDate = NoDate
    /\ currentDate = NoDate
    /\ startFinder = NoDate
    /\ endFinder = NoDate
    /\ searchDate = NoDate
    /\ periodStart = NoDate
    /\ result = NoResult
    /\ history = << >>
    /\ instant = 0
    /\ answer = << >>
    /\ verdict = << >>
    /\ AppUnmounted

AyanamshaNext == GetAyanamsha

AyanamshaSpec == AyanamshaInit /\ [][AyanamshaNext]_vars

-----------------------------------------------------------------------------
(* C21 *)

\* C21: getLahiriAyanamsha is linear in the elapsed time, at the rate of
\* 50.29 / 3600 degree per year of 365.25 days from 23.85575 degrees at J2000
\* (the value returned, in units of 1e-5 degree, is that line rounded down),
\* and at J2000 itself it returns exactly 23.85575.
C21_LinearFromEpoch ==
    answer # << >> =>
        LET rise == answer[1] - AYANAMSHA_AT_J2000
        IN  /\ 13149 * rise <= 50290 * instant
            /\ 50290 * instant < 13149 * (rise + 1)
            /\ (instant = 0 => answer[1] = 2385575)

\* the ayanamsha has been asked for at J2000 and for a day long after it
C21_Witness == answer # << >> /\ instant = 0

C21_WitnessLater == answer # << >> /\ instant > 30000 /\ answer[1] > 2500000

-----------------------------------------------------------------------------
(* C11 *)

\* the instant queried is within 5,000,000 days (13,689 years) of J2000
NearJ2000 == -10 * NearStride <= instant /\ instant <= 10 * NearStride

\* for instants near J2000 the longitude returned is in [0, 360)
C11_InRangeNearJ2000 ==
    (answer # << >> /\ NearJ2000) => (0 <= answer[1] /\ answer[1] < FullCircle)

\* C11 as stated: for every instant a Date can hold, getMoonSiderealLongitude
\* returns a value in [0, 360).  The ayanamsha grows by 50.29 arc seconds a
\* year without bound, so far from J2000 one correction by 360 is not enough.
C11_InRange ==
    answer # << >> => (0 <= answer[1] /\ answer[1] < FullCircle)

-----------------------------------------------------------------------------
(* C12 *)

\* C12: isSwathi(longitude) is true exactly for the longitudes of the 15th of
\* the 27 equal segments of the circle, 14 * (360 / 27) <= longitude <
\* 15 * (360 / 27): 186.667 degrees is inside and 200 degrees is outside.
C12_HalfOpenBand ==
    verdict # << >> =>
        /\ verdict[1] = ((27 * answer[1]) \div FullCircle = 15 - 1)
        /\ answer[1] = 18666700 => verdict[1]
        /\ answer[1] = 200 * 100000 => ~verdict[1]

\* isSwathi was asked about 200 degrees and said no
C12_Witness ==
    answer = << 200 * 100000 >> /\ verdict = << FALSE >>

-----------------------------------------------------------------------------
(* Vocabulary of the properties *)

\* the locator of part_000 is the one running
Part000 == impl = "part_000"

\* a call of the locator of part_000 has just returned a period
Returned000 == Part000 /\ pc = "returned"

\* the call in progress or just completed was made inside the band (Mode A)
ModeA == InBand(startDate)

\* band membership at minute m of the one-minute grid of the call's reference
InBandAt(m) == InBand([min |-> m, ms |-> startDate.ms])

CoarseMinutes == coarseStep \div MsPerMinute

\* Every in-band or out-of-band run that begins at a minute of lo..hi lasts
\* longer than the coarse step.
RunsLongOver(lo, hi) ==
    \A m \in lo..hi :
        (InBandAt(m) # InBandAt(m - 1)) =>
            \A j \in 1..CoarseMinutes : InBandAt(m + j) = InBandAt(m)

-----------------------------------------------------------------------------
(* C1 *)

\* C1: whenever findCurrentOrNextSwathiPeriod returns, in Mode A or in Mode B,
\* the returned period has start <= end.
C1_StartLeEnd ==
    Returned000 => DateLE(result.start, result.end)

\* a run in which one call returned in Mode A and another in Mode B
C1_Witness ==
    /\ Returned000
    /\ \E i, j \in 1..Len(history) :
          /\ history[i].res.ok /\ InBand(history[i].ref)
          /\ history[j].res.ok /\ ~InBand(history[j].ref)

-----------------------------------------------------------------------------
(* C4 *)

\* C4: for every returned period, in both modes, the longitude at end is
\* outside the band and the longitude one fine step before end is inside it.
C4_EndIsFirstOutside ==
    Returned000 =>
        /\ ~InBand(result.end)
        /\ InBand(AddMs(result.end, -fineStep))

C4_Witness ==
    /\ Returned000
    /\ ModeA
    /\ \E i \in 1..Len(history) : history[i].res.ok /\ ~InBand(history[i].ref)
    /\ ~InBand(result.end)

-----------------------------------------------------------------------------
(* C5 *)

\* C5: for every returned period, in both modes, the longitude at start is
\* inside the band and the longitude one fine step before start is outside it.
C5_StartIsEntry ==
    Returned000 =>
        /\ InBand(result.start)
        /\ ~InBand(AddMs(result.start, -fineStep))

C5_Witness ==
    /\ Returned000
    /\ ~ModeA
    /\ \E i \in 1..Len(history) : history[i].res.ok /\ InBand(history[i].ref)
    /\ InBand(result.start)

-----------------------------------------------------------------------------
(* C6 *)

\* C6: when every in-band and out-of-band run of the signal that begins
\* between start and end lasts longer than the coarse step, every instant of
\* the one-minute grid of the reference from start up to, not including, end
\* is inside the band, and the interval is maximal.
C6_OneMaximalRun ==
    (Returned000 /\ RunsLongOver(result.start.min, result.end.min)) =>
        /\ \A m \in result.start.min..(result.end.min - 1) : InBandAt(m)
        /\ ~InBandAt(result.start.min - 1)
        /\ ~InBandAt(result.end.min)

\* a period of more than one coarse step returned for a well-behaved signal
C6_Witness ==
    /\ Returned000
    /\ RunsLongOver(result.start.min, result.end.min)
    /\ result.end.min - result.start.min > 2 * CoarseMinutes

\* without the condition on the runs a crossing can be skipped
C6_Unconditional ==
    Returned000 =>
        \A m \in result.start.min..(result.end.min - 1) : InBandAt(m)

-----------------------------------------------------------------------------
(* C7 *)

\* C7: in Mode A the returned period contains the reference:
\* start <= reference < end.
C7_ContainsReference ==
    (Returned000 /\ ModeA) =>
        /\ DateLE(result.start, startDate)
        /\ DateLT(startDate, result.end)

\* a Mode A call whose reference is strictly inside the returned period
C7_Witness ==
    /\ Returned000
    /\ ModeA
    /\ DateLT(result.start, startDate)
    /\ DateLT(AddMs(startDate, coarseStep), result.end)

-----------------------------------------------------------------------------
(* C8 *)

\* C8: in Mode B a returned period starts after the reference, and when the
\* runs that begin between the reference and start last longer than the
\* coarse step, no instant of the one-minute grid from the reference up to
\* start is inside the band.
C8_NearestFollowing ==
    (Returned000 /\ ~ModeA) =>
        /\ DateLT(startDate, result.start)
        /\ RunsLongOver(startDate.min, result.start.min) =>
              \A m \in startDate.min..(result.start.min - 1) : ~InBandAt(m)

\* a Mode B call that scanned more than two coarse steps of a well-behaved signal
C8_Witness ==
    /\ Returned000
    /\ ~ModeA
    /\ RunsLongOver(startDate.min, result.start.min)
    /\ result.start.min - startDate.min > 2 * CoarseMinutes

\* without the condition on the runs the coarse scan can step over a period
C8_Unconditional ==
    (Returned000 /\ ~ModeA) =>
        \A m \in startDate.min..(result.start.min - 1) : ~InBandAt(m)

-----------------------------------------------------------------------------
(* C9 *)

\* completed calls with the same reference have the same outcome
C9_SameReferenceSameResult ==
    Part000 => \A i, j \in 1..Len(history) :
        history[i].ref = history[j].ref => history[i].res = history[j].res

\* a step of a call in progress leaves the Date it was passed as it is
C9_ArgumentUntouched ==
    Running => startDate' = startDate

-----------------------------------------------------------------------------
(* C10 *)

\* C10: when a call returned period P, the call made next with reference
\* P.end + 1 ms returned a period, and the out-of-band run that begins at
\* P.end lasts longer than the coarse step, the second period starts at or
\* after P.end.
FollowsOn(i) ==
    /\ history[i].res.ok
    /\ history[i + 1].ref = AddMs(history[i].res.end, 1)
    /\ history[i + 1].res.ok

C10_MonotonicCoverage ==
    Part000 => \A i \in 1..(Len(history) - 1) :
        (FollowsOn(i) /\ RunsLongOver(history[i].res.end.min, history[i].res.end.min))
            => DateLE(history[i].res.end, history[i + 1].res.start)

\* a second period found from the end of the first, across a minute boundary
C10_Witness ==
    /\ Part000
    /\ Len(history) >= 2
    /\ FollowsOn(1)
    /\ RunsLongOver(history[1].res.end.min, history[1].res.end.min)
    /\ history[1].res.end.ms = MsPerMinute - 1
    /\ DateLT(history[1].res.end, history[2].res.start)

\* without the condition on the runs the second call can return the first period again
C10_Unconditional ==
    Part000 => \A i \in 1..(Len(history) - 1) :
        FollowsOn(i) => DateLE(history[i].res.end, history[i + 1].res.start)

-----------------------------------------------------------------------------
(* C2 *)

\* The longitude model p stays outside the band from the reference `from` to
\* one coarse step past the search horizon: it has no mean motion and the
\* interval its longitude can take, L0 - amp - ayanamsha .. L0 + amp - ayanamsha,
\* does not wrap and does not meet the band.
NeverInBand(p, from) ==
    LET to == [min |-> from.min + MaxSearchMinutes + CoarseMinutes, ms |-> from.ms]
        lo == p.L0 - p.amp - getLahiriAyanamsha(to)
        hi == p.L0 + p.amp - getLahiriAyanamsha(from)
    IN  /\ p.period = 0
        /\ p.L0 - p.amp >= 0
        /\ p.L0 + p.amp < FullCircle
        /\ lo >= 0
        /\ 27 * hi < (15 - 1) * FullCircle \/ 27 * lo >= 15 * FullCircle

\* number of coarse steps the Mode B scan has taken
CoarseStepsTaken == (searchDate.min - currentDate.min) \div CoarseMinutes

\* with a never-in-band model a call is in Mode B's forward coarse scan and
\* has taken no more coarse steps than fit in 30 days
C2_ScanBounded ==
    (Part000 /\ Running /\ NeverInBand(provider, startDate)) =>
        /\ pc = "B_fwdCoarse"
        /\ CoarseStepsTaken <= MaxSearchMinutes \div CoarseMinutes

\* with a never-in-band model no call returns a period
C2_NoPeriod ==
    Returned000 => ~NeverInBand(provider, startDate)

\* C2: with a longitude model that is never inside the band, a call stays in
\* Mode B's forward coarse scan for at most 30 days of coarse steps, never
\* returns a period, and ends with the error
\* 'Could not find Swathi period within 30 days'.
C2_Exhausts ==
    /\ []C2_ScanBounded
    /\ []C2_NoPeriod
    /\ (Part000 /\ Running /\ NeverInBand(provider, startDate))
          ~> (pc = "thrown" /\ result = Thrown(SearchExhausted))

\* the scan of a never-in-band model at its last probe, 30 days after the reference
C2_Witness ==
    /\ Part000
    /\ NeverInBand(provider, startDate)
    /\ pc = "B_fwdCoarse"
    /\ CoarseStepsTaken = MaxSearchMinutes \div CoarseMinutes

-----------------------------------------------------------------------------
(* C3 *)

ThrownByCoarseScan ==
    /\ result = Thrown(SearchExhausted)
    /\ ~ModeA
    /\ DiffExceeds(searchDate, currentDate, MaxSearchMinutes)
    /\ startFinder = NoDate /\ periodStart = NoDate /\ endFinder = NoDate

\* how a failed call has failed
C3_FailureState ==
    /\ (Part000 /\ pc = "thrown") => ThrownByCoarseScan
    /\ (~Part000 /\ pc = "thrown") => (~sunCalc /\ result = Thrown(SunCalcMissing))
    /\ (~Part000 /\ ~sunCalc) => pc \in {"idle", "thrown"}

\* which step can raise an error
C3_FailureStep ==
    (pc' = "thrown" /\ pc # "thrown") =>
        \/ Part000 /\ pc = "B_fwdCoarse"
        \/ ~Part000 /\ ~sunCalc /\ pc \in {"idle", "returned", "thrown"}

C3_WitnessSunCalc ==
    /\ ~Part000
    /\ pc = "thrown"
    /\ result = Thrown(SunCalcMissing)
    /\ NC_InBand(startDate)

-----------------------------------------------------------------------------
(* C13 *)

\* the stretch, in minutes, either side of a probe within which the scans of
\* one call stay once the band is found: a day, longer than any in-band run
\* of the models tried
SearchWindow == 24 * 60

\* Band membership is periodic, and every run that begins within SearchWindow
\* of minute m lasts longer than the coarse step.
LongRunsAround(m) ==
    /\ provider.period > 0
    /\ RunsLongOver(m - SearchWindow, m + SearchWindow)

\* a call has just found its reference inside the band (Mode A begins)
ModeAEntered ==
    Part000 /\ pc = "A_backCoarse" /\ startFinder = currentDate

\* Mode B's first forward coarse scan has just hit an in-band probe
ModeBScanDone ==
    /\ Part000
    /\ pc = "B_backFine"
    /\ searchDate.ms = currentDate.ms
    /\ (searchDate.min - currentDate.min) % CoarseMinutes = 0

\* C13: when band membership is periodic with runs longer than the coarse
\* step, a call made inside the band, and a call whose first forward coarse
\* scan has hit the band, runs each of its remaining loops to its end and
\* returns a period.
C13_OtherLoopsTerminate ==
    /\ (ModeAEntered /\ LongRunsAround(currentDate.min)) ~> (pc = "returned")
    /\ (ModeBScanDone /\ LongRunsAround(searchDate.min)) ~> (pc = "returned")

\* a call made inside the band of the Moon's model has returned
C13_Witness ==
    /\ Returned000
    /\ ModeA
    /\ provider.wper > 0
    /\ LongRunsAround(currentDate.min)

-----------------------------------------------------------------------------
(* C14 *)

\* calculatePeriod resumes after a call of the locator that failed
FailureSettles == pc = "thrown" /\ pc' = "idle"

\* a failure leaves activePeriod as it was and isLoading false
C14_NoPeriodSynthesized ==
    [][FailureSettles => (activePeriod' = activePeriod /\ ~isLoading')]_vars

\* calculatePeriod of part_000 records the failure in error
C14_Part000RecordsError ==
    [][(FailureSettles /\ Part000) =>
          (error' = result.error /\ error' # "" /\ ~mounted')]_vars

\* a failure of part_000 that found a period in activePeriod and left it there
C14_FailureAfterPeriod ==
    Part000 /\ pc = "idle" /\ error # "" /\ activePeriod # NoPeriod

\* C14 as stated: when findCurrentOrNextSwathiPeriod fails, activePeriod is
\* left as it was and the failure is recorded in error.  The hook
\* useNakshatra has no error state: its catch clause only logs.
C14_FailureRecorded ==
    [][FailureSettles =>
          (activePeriod' = activePeriod /\ error' = result.error /\ error' # "")]_vars

-----------------------------------------------------------------------------
(* C15 *)

\* end - start of the period returned, in minutes
DurationMinutes == result.end.min - result.start.min

-----------------------------------------------------------------------------
(* C16 *)

\* the timer callback runs
TimerFires == now # NoDate /\ now' # now

\* C16: a tick with a period in activePeriod calls the search again, with the
\* tick's now as reference, exactly when now > activePeriod.end; a tick while
\* activePeriod is null changes nothing.
C16_RecalculatesOnlyPastEnd ==
    [][TimerFires =>
          IF activePeriod = NoPeriod
          THEN UNCHANGED << activePeriod, isSwathiActive, target, isLoading, error,
                            mounted, lastNotified, notified, pc, startDate, result,
                            history >>
          ELSE /\ isLoading' = DateLT(activePeriod.end, now')
               /\ isLoading' => (startDate' = now' /\ pc' # "idle")
               /\ ~isLoading' => UNCHANGED << pc, startDate, result, history >>
               /\ activePeriod' = activePeriod]_vars

\* a tick one millisecond after the period's end has called the search again
C16_Witness ==
    /\ activePeriod # NoPeriod
    /\ isLoading
    /\ Running
    /\ startDate = now
    /\ now = AddMs(activePeriod.end, 1)

-----------------------------------------------------------------------------
(* C17 *)

\* C17: a tick with a period in activePeriod sets isSwathiActive to
\* start <= now <= end, both ends included; when that is true the countdown
\* is given the period's end, and when now < start the period's start.
C17_ActiveFlagAndTarget ==
    [][(TimerFires /\ activePeriod # NoPeriod) =>
          /\ isSwathiActive' = (DateLE(activePeriod.start, now')
                                  /\ DateLE(now', activePeriod.end))
          /\ isSwathiActive' => target' = activePeriod.end
          /\ DateLT(now', activePeriod.start) => target' = activePeriod.start]_vars

\* a tick at the very end of the period found it active
C17_Witness ==
    /\ activePeriod # NoPeriod
    /\ now = activePeriod.end
    /\ isSwathiActive
    /\ target = activePeriod.end

\* a tick before the period's start counts down to the start
C17_WitnessBefore ==
    /\ activePeriod # NoPeriod
    /\ DateLT(now, activePeriod.start)
    /\ ~isSwathiActive
    /\ ~isLoading
    /\ target = activePeriod.start

-----------------------------------------------------------------------------
(* C18 *)

\* no two notifications were created with the same key
NoDuplicateAlert ==
    \A i, j \in 1..Len(notified) : i # j => notified[i] # notified[j]

\* a step creates at most one notification, keyed by the start of the period
\* then in activePeriod, with permission granted and the period active
OneAlertAtATime ==
    notified' # notified =>
        /\ notified' = Append(notified, activePeriod'.start)
        /\ activePeriod' # NoPeriod
        /\ permission = "granted"
        /\ isSwathiActive'
        /\ lastNotified' = activePeriod'.start

-----------------------------------------------------------------------------
(* C19 *)

\* a call of App.tsx's locator has returned a period
LF_Returned == impl = "App.tsx" /\ pc = "returned" /\ result.ok

C19_ModeAStartLeEnd ==
    (LF_Returned /\ LF_InBand(startDate)) => DateLE(result.start, result.end)

\* Mode B has returned a period that ends before it starts
C19_ModeBInverted ==
    /\ LF_Returned
    /\ ~LF_InBand(startDate)
    /\ ~DateLE(result.start, result.end)

-----------------------------------------------------------------------------
(* C20 *)

\* the forward scan of Mode B is running in App.tsx or in part_001
VariantScanning ==
    /\ impl \in {"App.tsx", "part_001"}
    /\ pc \in {"LF_B_fwdCoarse", "NC_B_fwdCoarse"}

\* C20: in App.tsx and in part_001 the forward scan of a call whose reference
\* is outside the band stays within the 30-day horizon: it never probes an
\* instant more than MaxSearchMinutes after the reference, the call ending
\* with the search-exhausted error instead.
C20_ScanWithinHorizon ==
    VariantScanning => ~DiffExceeds(searchDate, currentDate, MaxSearchMinutes)

\* neither variant ever raises the search-exhausted error
C20_NeverExhausts ==
    /\ result.error # SearchExhausted
    /\ \A i \in 1..Len(history) : history[i].res.error # SearchExhausted

\* the scan of App.tsx is past the horizon and still running
C20_AppPastHorizon ==
    /\ impl = "App.tsx"
    /\ pc = "LF_B_fwdCoarse"
    /\ searchDate.min - currentDate.min = LF_ScanLimit * LF_CoarseMinutes

\* the scan of part_001 is past the horizon and still running
C20_Part001PastHorizon ==
    /\ impl = "part_001"
    /\ pc = "NC_B_fwdCoarse"
    /\ searchDate.min - currentDate.min = NC_ScanLimit * NC_CoarseMinutes

-----------------------------------------------------------------------------
(* C22 *)

\* minutes from the reference to the probe of Mode B's forward scan
ProbeOffset == searchDate.min - currentDate.min

\* while the scan runs, its probe is reference + k * coarseStep with k in 0..1440
C22_ProbesOnCoarseGrid ==
    (Part000 /\ pc = "B_fwdCoarse") =>
        /\ searchDate.ms = currentDate.ms
        /\ ProbeOffset % CoarseMinutes = 0
        /\ 0 <= ProbeOffset
        /\ ProbeOffset <= MaxSearchMinutes

\* the error is raised with the probe one coarse step past the 30th day
C22_ThrownJustPastHorizon ==
    (Part000 /\ pc = "thrown") =>
        /\ searchDate.ms = currentDate.ms
        /\ ProbeOffset = MaxSearchMinutes + CoarseMinutes

\* a period returned in Mode B starts after the reference and no later than
\* 30 days after it
C22_StartWithinHorizon ==
    (Returned000 /\ ~ModeA) =>
        /\ DateLT(startDate, result.start)
        /\ ~DiffExceeds(result.start, startDate, MaxSearchMinutes)

\* the probe 30 days after the reference is tested, and the probe after it is
\* not: the step that takes the scan past the 30th day raises the error
C22_HorizonStep ==
    (Part000 /\ pc = "B_fwdCoarse") =>
        /\ (ProbeOffset = MaxSearchMinutes /\ InBand(searchDate))
              => pc' = "B_backFine"
        /\ (ProbeOffset = MaxSearchMinutes /\ ~InBand(searchDate))
              => (pc' = "thrown" /\ result' = Thrown(SearchExhausted))
        /\ pc' = "thrown" => ProbeOffset = MaxSearchMinutes

\* C22: Mode B's forward coarse scan in part_000 tests only the probes
\* reference + k * coarseStep for k = 0..1440; the probe exactly 30 days after
\* the reference is still tested, and the error is raised as soon as a probe
\* lies more than 30 days after the reference, even if that probe is inside
\* the band; every period returned in Mode B has
\* reference < start <= reference + 30 days.
C22_ScanStopsAtThirtyDays ==
    /\ []C22_ProbesOnCoarseGrid
    /\ []C22_ThrownJustPastHorizon
    /\ []C22_StartWithinHorizon
    /\ [][C22_HorizonStep]_vars

\* the error has been raised although the probe it stopped at is inside the band
C22_Witness ==
    /\ Part000
    /\ pc = "thrown"
    /\ result = Thrown(SearchExhausted)
    /\ InBand(searchDate)

\* a period found by the probe exactly 30 days after the reference, and
\* starting exactly there
C22_WitnessLastProbe ==
    /\ Returned000
    /\ ~ModeA
    /\ searchDate = result.start
    /\ result.start = [min |-> startDate.min + MaxSearchMinutes, ms |-> startDate.ms]

-----------------------------------------------------------------------------
(* C23 *)

\* a call of the locator of part_001 has returned a period
NC_Returned == impl = "part_001" /\ pc = "returned" /\ result.ok

\* C23: in part_001 the end of every returned period is refined to the
\* minute: one fine step before the end the longitude is inside the band, and
\* at the end it is outside.
C23_EndRefinedToMinute ==
    NC_Returned =>
        /\ NC_InBand(AddMs(result.end, -fineStep))
        /\ ~NC_InBand(result.end)

\* the end returned by part_001 is outside the band and a whole number of
\* coarse steps after the instant its end search started from
C23_EndIsCoarseProbe ==
    NC_Returned =>
        /\ ~NC_InBand(result.end)
        /\ endFinder = result.end
        /\ result.end.ms = startDate.ms
        /\ \/ (result.end.min - startDate.min) % NC_CoarseMinutes = 0
           \/ (result.end.min - result.start.min) % NC_CoarseMinutes = 0

\* part_001 has returned an end that lies more than a minute past the band
C23_EndPastBand ==
    /\ NC_Returned
    /\ ~NC_InBand(AddMs(result.end, -fineStep))
    /\ NC_InBand(AddMs(result.end, -NC_coarseStep))

-----------------------------------------------------------------------------
(* C24 *)

\* a period just returned by part_000 ends at least one fine step after the
\* reference of the call
C24_EndAfterReference ==
    Returned000 => DateLE(AddMs(startDate, fineStep), result.end)

\* the period App holds was returned by a call of part_000 whose reference is
\* at least one fine step before its end: one second after that reference
\* the period is not over
C24_StoredPeriodNotExpired ==
    (Part000 /\ activePeriod # NoPeriod) =>
        \E i \in 1..Len(history) :
            /\ history[i].res.ok
            /\ activePeriod = [start |-> history[i].res.start, end |-> history[i].res.end]
            /\ DateLE(AddMs(history[i].ref, fineStep), activePeriod.end)
            /\ ~PeriodOver(AddMs(history[i].ref, 1000))

\* a tick that finds the period over comes more than one fine step after the
\* reference that period was computed for
C24_ExpiryTick ==
    (Part000 /\ activePeriod # NoPeriod /\ Len(history') > Len(history)
             /\ now' # now /\ pc = "idle") =>
        \A i \in 1..Len(history) :
            (history[i].res.ok /\ history[i].res.end = activePeriod.end) =>
                DateLT(AddMs(history[i].ref, fineStep), now')

\* C24: every period returned by findCurrentOrNextSwathiPeriod of part_000
\* ends at least one fine step after the reference, in both modes; so a period
\* computed for reference = now is not over one second later, and the tick that
\* finds it over is not the next one.
C24_NeverAlreadyExpired ==
    /\ []C24_EndAfterReference
    /\ []C24_StoredPeriodNotExpired
    /\ [][C24_ExpiryTick]_vars

\* App holds a period computed for a reference inside the band, and the timer
\* has fired since
C24_Witness ==
    /\ Part000
    /\ activePeriod # NoPeriod
    /\ Len(history) = 1
    /\ pc = "idle"
    /\ InBand(history[1].ref)
    /\ activePeriod.end = history[1].res.end
    /\ DateLT(history[1].ref, now)

\* App holds a period computed by a recalculation made outside the band
C24_WitnessModeB ==
    /\ Part000
    /\ activePeriod # NoPeriod
    /\ Len(history) = 2
    /\ pc = "idle"
    /\ ~InBand(history[2].ref)
    /\ history[2].res.ok
    /\ activePeriod.end = history[2].res.end

-----------------------------------------------------------------------------
(* C25 *)

\* while the flag is true a period is held, the last tick fell inside it and
\* no calculation is pending
C25_ActiveWithinPeriod ==
    isSwathiActive =>
        /\ activePeriod # NoPeriod
        /\ DateLE(activePeriod.start, now)
        /\ DateLE(now, activePeriod.end)
        /\ pc = "idle"

\* activePeriod is replaced only while the flag is false
C25_ReplacedWhileInactive ==
    activePeriod' # activePeriod => (~isSwathiActive /\ ~isSwathiActive')

\* a notification is created only with the flag true, permission granted and
\* a period held, for the start of that period, which has begun
C25_NotifiesBegunPeriod ==
    notified' # notified =>
        /\ isSwathiActive'
        /\ permission' = "granted"
        /\ activePeriod' # NoPeriod
        /\ notified' = Append(notified, activePeriod'.start)
        /\ DateLE(activePeriod'.start, now')
        /\ DateLE(now', activePeriod'.end)

C25_WitnessHook ==
    /\ impl = "part_001"
    /\ isSwathiActive
    /\ DateLT(activePeriod.start, now)

-----------------------------------------------------------------------------
(* C26 *)

\* d is a whole number of minutes (60 000 ms) away from the reference of the
\* call; the minutes of a Date are whole, so its milliseconds part decides
OnMinuteGrid(d) == (d.ms - startDate.ms) % MsPerMinute = 0

\* C26: in part_000 every probe of a call, and both boundaries of every
\* returned period, lie a whole number of fine steps of 60 000 ms from the
\* reference, the coarse step being a whole number of fine steps.
C26_OnReferenceGrid ==
    Part000 =>
        /\ coarseStep % fineStep = 0
        /\ fineStep = MsPerMinute
        /\ \A d \in {startFinder, endFinder, searchDate, periodStart} :
               (pc # "idle" /\ d # NoDate) => OnMinuteGrid(d)
        /\ pc = "returned" => (OnMinuteGrid(result.start) /\ OnMinuteGrid(result.end))

\* a period has been returned for a reference that is not on a whole minute,
\* in Mode A
C26_Witness ==
    /\ Returned000
    /\ ModeA
    /\ startDate.ms = MsPerMinute - 1
    /\ result.start.ms = MsPerMinute - 1
    /\ result.end.ms = MsPerMinute - 1

\* the same in Mode B
C26_WitnessModeB ==
    /\ Returned000
    /\ ~ModeA
    /\ startDate.ms = MsPerMinute - 1
    /\ result.start.ms = MsPerMinute - 1
    /\ result.end.ms = MsPerMinute - 1

-----------------------------------------------------------------------------
(* C27 *)

\* floor((target - now) / 1000), the whole seconds from now to the target
SecondsToTarget == (target.min - now.min) * 60 + ((target.ms - now.ms) \div 1000)

\* target - now <= 0
TargetReached == DateLE(target, now)

\* C27: calculateCountdown(target) returns all zeros when target is null or
\* target - now <= 0; otherwise it returns days >= 0, hours in 0..23, minutes
\* in 0..59 and seconds in 0..59 with
\* days * 86400 + hours * 3600 + minutes * 60 + seconds = floor(diff / 1000),
\* diff = target - now in ms.  No field is ever negative.
C27_CountdownDecomposes ==
    answer # << >> =>
        LET c == answer[1]
        IN  /\ c.days >= 0 /\ c.hours >= 0 /\ c.minutes >= 0 /\ c.seconds >= 0
            /\ (target = NoDate \/ TargetReached) => c = ZeroCountdown
            /\ (target # NoDate /\ ~TargetReached) =>
                  /\ c.hours <= 23 /\ c.minutes <= 59 /\ c.seconds <= 59
                  /\ c.days * 86400 + c.hours * 3600 + c.minutes * 60 + c.seconds
                        = SecondsToTarget

\* a countdown of more than a day with every field at work
C27_Witness ==
    /\ answer # << >>
    /\ target # NoDate
    /\ answer[1].days >= 1
    /\ answer[1].hours = 23
    /\ answer[1].minutes = 59
    /\ answer[1].seconds = 59

\* a target in the past, and a target less than a second ahead
C27_WitnessPast == answer # << >> /\ target # NoDate /\ DateLT(target, now)

C27_WitnessSubSecond ==
    /\ answer # << >>
    /\ DateLT(now, target)
    /\ answer[1] = ZeroCountdown

-----------------------------------------------------------------------------
(* C28 *)

\* a step that invokes calculatePeriod leaves isLoading true
C28_InvocationSetsLoading ==
    (pc = "idle" /\ pc' # "idle") => isLoading'

\* isLoading is true for as long as the call is in progress or its promise is
\* settled and not yet handled
C28_LoadingDuringCall == pc # "idle" => isLoading

\* C28: every invocation of calculatePeriod / calculateAndSetPeriod sets
\* isLoading to true at its start, and once the period search has succeeded or
\* failed isLoading is eventually set back to false.
C28_LoadingEventuallyCleared ==
    /\ [][C28_InvocationSetsLoading]_vars
    /\ []C28_LoadingDuringCall
    /\ (pc = "returned") ~> (pc = "idle" /\ ~isLoading)
    /\ (pc = "thrown") ~> (pc = "idle" /\ ~isLoading)

\* a recalculation has failed after a first one succeeded, and isLoading is
\* false again
C28_Witness ==
    /\ pc = "idle"
    /\ ~isLoading
    /\ Len(history) = 2
    /\ history[1].res.ok
    /\ ~history[2].res.ok

\* the hook's only call has failed, and isLoading is false again
C28_WitnessHook ==
    /\ impl = "part_001"
    /\ pc = "idle"
    /\ ~isLoading
    /\ Len(history) = 1
    /\ ~history[1].res.ok

====
